---- MODULE Spec2Model ----
(***************************************************************************)
(* Model of koopmania/observable.py: Koopman observables (feature maps),   *)
(* their symbolic construction, differentiation and compilation, the       *)
(* algebraic operators on SymbolicObservable and the block combinator      *)
(* CombineObservable.                                                      *)
(*                                                                         *)
(* Objects live in a heap (objs), an append-only sequence: an object is    *)
(* named by its index.  Every call is recorded in `last` with its inputs   *)
(* and its outcome (the exception it raised, the object it returned or the *)
(* array it returned).                                                     *)
(*                                                                         *)
(* Symbolic expressions are trees: <<"sym", name>>, <<"num", c>> and       *)
(* <<op, l, r>> for op in add, sub, mul, div.  Numbers are exact rationals *)
(* <<n, d>> with d > 0 in lowest terms; <<0, 0>> stands for the non-finite *)
(* results (inf, nan) that floating point division by zero produces.       *)
(***************************************************************************)
EXTENDS Integers, Sequences, FiniteSets, TLC

VARIABLES objs, ret, last

vars == <<objs, ret, last>>

-----------------------------------------------------------------------------
(* Bounds of the model *)

\* number of objects bound to names
MaxObjs == 2
\* largest input dimension handed to QuadraticObservable
MaxDim == 2
\* components of a numeric state range over 0..MaxVal
MaxVal == 2
\* plain numeric scalars range over 2..MaxScalar
MaxScalar == 2

Vals == 0..MaxVal
Scalars == 2..MaxScalar

-----------------------------------------------------------------------------
(* Exact arithmetic on the numbers the compiled evaluators compute *)

RECURSIVE Gcd(_, _)
Gcd(a, b) == IF b = 0 THEN a ELSE Gcd(b, a % b)

Abs(a) == IF a < 0 THEN -a ELSE a

NaN == <<0, 0>>

Rat(n, d) ==
    IF d = 0 THEN NaN
    ELSE LET g == Gcd(Abs(n), Abs(d))
             s == IF d < 0 THEN -1 ELSE 1
         IN  <<(s * n) \div g, (s * d) \div g>>

Int2Rat(n) == <<n, 1>>

RatAdd(p, q) == IF p = NaN \/ q = NaN THEN NaN
                ELSE Rat(p[1] * q[2] + q[1] * p[2], p[2] * q[2])
RatSub(p, q) == IF p = NaN \/ q = NaN THEN NaN
                ELSE Rat(p[1] * q[2] - q[1] * p[2], p[2] * q[2])
RatMul(p, q) == IF p = NaN \/ q = NaN THEN NaN
                ELSE Rat(p[1] * q[1], p[2] * q[2])
RatDiv(p, q) == IF p = NaN \/ q = NaN THEN NaN
                ELSE Rat(p[1] * q[2], p[2] * q[1])

RatOp(op, p, q) ==
    CASE op = "add" -> RatAdd(p, q)
      [] op = "sub" -> RatSub(p, q)
      [] op = "mul" -> RatMul(p, q)
      [] op = "div" -> RatDiv(p, q)

-----------------------------------------------------------------------------
(* Symbolic expressions (sympy) *)

Sym(n) == <<"sym", n>>
Num(c) == <<"num", c>>
Bin(op, l, r) == <<op, l, r>>

\* f"x{idx}" of QuadraticObservable.__init__
SymName(idx) == <<"x0", "x1", "x2", "x3", "x4", "x5">>[idx + 1]

RECURSIVE FreeSyms(_)
FreeSyms(e) ==
    CASE e[1] = "sym" -> {e[2]}
      [] e[1] = "num" -> {}
      [] OTHER -> FreeSyms(e[2]) \cup FreeSyms(e[3])

\* sp.diff(e, v): zero when e is free of v, else the rules of calculus
RECURSIVE Diff(_, _)
Diff(e, v) ==
    IF v \notin FreeSyms(e) THEN Num(0)
    ELSE CASE e[1] = "sym" -> Num(1)
           [] e[1] = "add" -> Bin("add", Diff(e[2], v), Diff(e[3], v))
           [] e[1] = "sub" -> Bin("sub", Diff(e[2], v), Diff(e[3], v))
           [] e[1] = "mul" -> Bin("add", Bin("mul", Diff(e[2], v), e[3]),
                                         Bin("mul", e[2], Diff(e[3], v)))
           [] e[1] = "div" -> Bin("div",
                                  Bin("sub", Bin("mul", Diff(e[2], v), e[3]),
                                             Bin("mul", e[2], Diff(e[3], v))),
                                  Bin("mul", e[3], e[3]))

\* the value of e with its symbols bound by env (symbol name -> rational)
RECURSIVE Eval(_, _)
Eval(e, env) ==
    CASE e[1] = "sym" -> env[e[2]]
      [] e[1] = "num" -> Int2Rat(e[2])
      [] OTHER -> RatOp(e[1], Eval(e[2], env), Eval(e[3], env))

Range(s) == {s[i] : i \in 1..Len(s)}

Min(a, b) == IF a < b THEN a ELSE b

\* the orders in which iterating a set of symbols may yield them
Perms(S) ==
    {p \in [1..Cardinality(S) -> S] : \A i, j \in 1..Cardinality(S) : p[i] = p[j] => i = j}

-----------------------------------------------------------------------------
(* Outcomes of a call: an exception, a returned object, a returned array *)

Raise(e) == [err |-> e, new |-> <<>>, out |-> <<>>]
ReturnObj(o) == [err |-> "none", new |-> <<o>>, out |-> <<>>]
ReturnArr(m) == [err |-> "none", new |-> <<>>, out |-> m]

-----------------------------------------------------------------------------
(* class SymbolicObservable: construction *)

\* sp.Matrix(observables): a column, one row per expression
ColumnMatrix(observables) == [i \in 1..Len(observables) |-> <<observables[i]>>]

\* GradientMatrix without the stacking by variable: G.jacobian(variables),
\* one row per expression
JacobianMatrix(variables, G) ==
    [i \in 1..Len(G) |->
        [j \in 1..Len(variables) |-> Diff(G[i][1], variables[j])]]

\* sp.Matrix([sp.diff(G, xi).T for xi in variables]): the derivative of the
\* column G by xi, transposed to a row; the rows stacked in the order of the
\* variables
GradientMatrix(variables, G) ==
    [j \in 1..Len(variables) |->
        [i \in 1..Len(G) |-> Diff(G[i][1], variables[j])]]

\* sp.lambdify((variables,), M): a function of ONE argument, a sequence that
\* is unpacked into the variables; it returns M with the symbols bound
lambdify(variables, M) == [args |-> variables, body |-> M]

\* SymbolicObservable.__init__ with length taken from the expression list
SymbolicObservableRowCount(variables, observables) ==
    LET G == ColumnMatrix(observables)
        GD == GradientMatrix(variables, G)
    IN  [kind        |-> "Symbolic",
         length      |-> Len(observables),
         observables |-> observables,
         variables   |-> variables,
         g           |-> lambdify(variables, G),
         gd          |-> lambdify(variables, GD),
         compiled    |-> 1]

\* SymbolicObservable.__init__
SymbolicObservable(variables, observables) ==
    LET G == ColumnMatrix(observables)
        GD == GradientMatrix(variables, G)
    IN  [kind        |-> "Symbolic",
         length      |-> Len(variables),
         observables |-> observables,
         variables   |-> variables,
         g           |-> lambdify(variables, G),
         gd          |-> lambdify(variables, GD),
         compiled    |-> 1]

\* the call of a compiled evaluator on the list xs
CallCompiled(f, xs) ==
    IF Len(xs) # Len(f.args)
    THEN Raise("ValueError")
    ELSE LET env == [n \in Range(f.args) |->
                        Int2Rat(xs[CHOOSE k \in 1..Len(f.args) : f.args[k] = n])]
         IN  ReturnArr([r \in 1..Len(f.body) |->
                           [c \in 1..Len(f.body[r]) |-> Eval(f.body[r][c], env)]])

\* SymbolicObservable.obs_fcn, X a 1-D array
SymbolicObservable_obs_fcn(self, X) == CallCompiled(self.g, X)

\* SymbolicObservable.obs_grad, X a 1-D array
SymbolicObservable_obs_grad(self, X) == CallCompiled(self.gd, X)

-----------------------------------------------------------------------------
(* class IdentityObservable *)

IdentityObservable == [kind |-> "Identity"]

\* np.atleast_2d(X): one row holding X
IdentityObservable_obs_fcn(self, X) ==
    ReturnArr(<<[k \in 1..Len(X) |-> Int2Rat(X[k])]>>)

\* np.eye(len(X))
IdentityObservable_obs_grad(self, X) ==
    ReturnArr([r \in 1..Len(X) |->
                  [c \in 1..Len(X) |-> Int2Rat(IF r = c THEN 1 ELSE 0)]])

-----------------------------------------------------------------------------
(* class CombineObservable: children are held by reference (heap indices) *)

CombineObservable(observables) == [kind |-> "Combine", observables |-> observables]

RECURSIVE FirstError(_)
FirstError(rs) ==
    IF rs = <<>> THEN "none"
    ELSE IF Head(rs).err # "none" THEN Head(rs).err ELSE FirstError(Tail(rs))

RECURSIVE ConcatRows(_)
ConcatRows(ms) == IF ms = <<>> THEN <<>> ELSE Head(ms) \o ConcatRows(Tail(ms))

\* np.vstack: the arrays one under the other; all need the same column count
vstack(ms) ==
    IF \E a, b \in Range(ms) : Len(a[1]) # Len(b[1])
    THEN Raise("ValueError")
    ELSE ReturnArr(ConcatRows(ms))

\* np.hstack: the arrays side by side; all need the same row count
hstack(ms) ==
    IF \E a, b \in Range(ms) : Len(a) # Len(b)
    THEN Raise("ValueError")
    ELSE ReturnArr([r \in 1..Len(ms[1]) |->
                       ConcatRows([k \in 1..Len(ms) |-> ms[k][r]])])

\* self.obs_fcn(X), by the class of self; children are looked up in heap
RECURSIVE obs_fcn(_, _, _)
obs_fcn(heap, self, X) ==
    CASE self.kind = "Symbolic" -> SymbolicObservable_obs_fcn(self, X)
      [] self.kind = "Identity" -> IdentityObservable_obs_fcn(self, X)
      [] self.kind = "Combine" ->
            LET rs == [k \in 1..Len(self.observables) |->
                          obs_fcn(heap, heap[self.observables[k]], X)]
            IN  IF FirstError(rs) # "none" THEN Raise(FirstError(rs))
                ELSE vstack([k \in 1..Len(rs) |-> rs[k].out])

\* self.obs_grad(X), by the class of self; children are looked up in heap
RECURSIVE obs_grad(_, _, _)
obs_grad(heap, self, X) ==
    CASE self.kind = "Symbolic" -> SymbolicObservable_obs_grad(self, X)
      [] self.kind = "Identity" -> IdentityObservable_obs_grad(self, X)
      [] self.kind = "Combine" ->
            LET rs == [k \in 1..Len(self.observables) |->
                          obs_grad(heap, heap[self.observables[k]], X)]
            IN  IF FirstError(rs) # "none" THEN Raise(FirstError(rs))
                ELSE hstack([k \in 1..Len(rs) |-> rs[k].out])

-----------------------------------------------------------------------------
(* class SymbolicObservable: operators.  An operand is a heap object or a  *)
(* plain number [kind |-> "Number", value |-> c].  Each method yields the  *)
(* set of its possible outcomes.                                           *)

Number(c) == [kind |-> "Number", value |-> c]

\* whether obs._variables and obs._observables exist
HasSymbolicAttrs(obs) == obs.kind = "Symbolic"

\* isinstance(other, SymbolicObservable)
IsSymbolic(other) == other.kind = "Symbolic"

\* list({*a, *b}): the distinct symbols of both lists, in the iteration order
\* of a set, which is the order of the symbols' hashes and differs between
\* runs
SetUnionLists(a, b) == Perms(Range(a) \cup Range(b))

\* [xi op yi for xi, yi in zip(xs, ys)]
ZipWith(op, xs, ys) ==
    [i \in 1..Min(Len(xs), Len(ys)) |-> Bin(op, xs[i], ys[i])]

Elementwise(op, self, obs) ==
    IF ~HasSymbolicAttrs(obs)
    THEN {Raise("AttributeError")}
    ELSE {ReturnObj(SymbolicObservable(vs, ZipWith(op, self.observables, obs.observables))) :
            vs \in SetUnionLists(self.variables, obs.variables)}

__add__(self, obs) == Elementwise("add", self, obs)

__sub__(self, obs) == Elementwise("sub", self, obs)

__mul__(self, obs) == Elementwise("mul", self, obs)

__truediv__(self, obs) == Elementwise("div", self, obs)

\* other op yi, other not a SymbolicObservable: sympy takes a number only
ScalarWith(op, self, other) ==
    IF other.kind # "Number"
    THEN {Raise("TypeError")}
    ELSE {ReturnObj(SymbolicObservable(self.variables,
            [i \in 1..Len(self.observables) |->
                Bin(op, Num(other.value), self.observables[i])]))}

__rdiv__(self, other) ==
    IF IsSymbolic(other) THEN Elementwise("div", self, other)
    ELSE ScalarWith("div", self, other)

__rmul__(self, other) ==
    IF IsSymbolic(other) THEN Elementwise("mul", self, other)
    ELSE ScalarWith("mul", self, other)

\* StackExpressions with the operands swapped
StackExpressionsSwapped(self, other) == other.observables \o self.observables

\* [*self._observables, *other._observables]
StackExpressions(self, other) == self.observables \o other.observables

\* SymbolicObservable.__or__ on the objects at indices i and j of heap
SymbolicObservable__or__(heap, i, j) ==
    IF IsSymbolic(heap[j])
    THEN {ReturnObj(SymbolicObservable(vs, StackExpressions(heap[i], heap[j]))) :
            vs \in SetUnionLists(heap[i].variables, heap[j].variables)}
    ELSE {ReturnObj(CombineObservable(<<i, j>>))}

\* KoopmanObservable.__or__
KoopmanObservable__or__(heap, i, j) == {ReturnObj(CombineObservable(<<i, j>>))}

\* the methods each class defines for the binary operators
SymbolicMethods ==
    {"__add__", "__sub__", "__mul__", "__truediv__", "__rdiv__", "__rmul__", "__or__"}

Methods(kind) ==
    CASE kind = "Symbolic" -> SymbolicMethods
      [] kind \in {"Identity", "Combine"} -> {"__or__"}
      [] kind = "Number" -> {}

ForwardName(op) ==
    CASE op = "+" -> "__add__" [] op = "-" -> "__sub__"
      [] op = "*" -> "__mul__" [] op = "/" -> "__truediv__"

ReflectedName(op) ==
    CASE op = "+" -> "__radd__" [] op = "-" -> "__rsub__"
      [] op = "*" -> "__rmul__" [] op = "/" -> "__rtruediv__"

CallMethod(name, self, other) ==
    CASE name = "__add__" -> __add__(self, other)
      [] name = "__sub__" -> __sub__(self, other)
      [] name = "__mul__" -> __mul__(self, other)
      [] name = "__truediv__" -> __truediv__(self, other)
      [] name = "__rdiv__" -> __rdiv__(self, other)
      [] name = "__rmul__" -> __rmul__(self, other)

\* x op y as the interpreter resolves it: the left operand's method, else
\* (a number on the left knows no observable) the right operand's reflected
\* method, else TypeError
BinaryOp(op, x, y) ==
    IF ForwardName(op) \in Methods(x.kind)
    THEN CallMethod(ForwardName(op), x, y)
    ELSE IF ReflectedName(op) \in Methods(y.kind)
    THEN CallMethod(ReflectedName(op), y, x)
    ELSE {Raise("TypeError")}

-----------------------------------------------------------------------------
(* Generators *)

\* IdentitySymbolicObservable.__init__
IdentitySymbolicObservable(variables) ==
    SymbolicObservable(variables, [i \in 1..Len(variables) |-> Sym(variables[i])])

\* sp.symbols("x0 ... x{n-1}"): a tuple of symbols, but the bare symbol, which
\* cannot be iterated, when the string holds a single name
sp_symbols(n) ==
    [iterable |-> n # 1, names |-> [k \in 1..n |-> SymName(k - 1)]]

\* np.tril_indices(n), zipped: the (row, column) pairs of the lower triangle,
\* row by row, counted from 0
RECURSIVE tril_indices(_)
tril_indices(n) ==
    IF n = 0 THEN <<>>
    ELSE tril_indices(n - 1) \o [j \in 1..n |-> <<n - 1, j - 1>>]

\* QuadraticObservable.__init__
QuadraticObservable(length) ==
    LET vec == sp_symbols(length)
    IN  IF ~vec.iterable
        THEN Raise("TypeError")
        ELSE LET x == [k \in 1..length |-> Sym(vec.names[k])] \o <<Num(1)>>
                 U(i, j) == Bin("mul", x[i + 1], x[j + 1])
                 ij == tril_indices(Len(x))
                 lv == [k \in 1..Len(ij) |-> U(ij[k][1], ij[k][2])]
             IN  ReturnObj(SymbolicObservable(vec.names, lv))


-----------------------------------------------------------------------------
(* Inputs *)

\* (variables, observables) pairs handed to SymbolicObservable directly
Presets ==
    { [variables |-> <<"x0", "x1">>,
       observables |-> <<Bin("mul", Sym("x0"), Sym("x1"))>>],
      [variables |-> <<"x1">>,
       observables |-> <<Sym("x1"), Bin("mul", Sym("x1"), Sym("x1"))>>],
      [variables |-> <<"x1", "x0">>,
       observables |-> <<Bin("sub", Sym("x0"), Sym("x1")),
                         Bin("div", Sym("x0"), Bin("add", Sym("x1"), Num(1)))>>] }

\* variable lists handed to IdentitySymbolicObservable
VariableLists == {<<"x0">>}

\* 1-D numeric states of length n
StatesOfLen(n) == [1..n -> Vals]

\* the 1-D numeric states handed to value and gradient: (1, ..., n)
Samples == {[k \in 1..n |-> k] : n \in 1..MaxDim}

Obj(i) == <<"obj", i>>
Scalar(c) == <<"num", c>>
Ret == <<"ret">>
NoOperand == <<>>

Operand(heap, d) == IF d[1] = "obj" THEN heap[d[2]] ELSE Number(d[2])

-----------------------------------------------------------------------------
(* The state machine.  objs holds the objects that constructors returned   *)
(* and that are bound to names; ret holds the object that the last         *)
(* operator expression returned, if any; last records the last call.  A    *)
(* run builds objects, then applies one operator or evaluates an object,   *)
(* then may evaluate the operator's result.                                *)

NoCall ==
    [op |-> "none", a |-> NoOperand, b |-> NoOperand, X |-> <<>>,
     err |-> "none", out |-> <<>>]

Call(op, a, b, X, r) ==
    [op |-> op, a |-> a, b |-> b, X |-> X, err |-> r.err, out |-> r.out]

Init ==
    /\ objs = <<>>
    /\ ret = <<>>
    /\ last = NoCall

ConstructorNames ==
    {"IdentityObservable", "SymbolicObservable", "IdentitySymbolicObservable",
     "QuadraticObservable"}

\* only constructors have been called, and each returned its object
Building ==
    /\ ret = <<>>
    /\ last.op \in ConstructorNames \cup {"none"}
    /\ last.err = "none"

\* name = Constructor(args), with outcome r
Construct(op, a, r) ==
    /\ Building
    /\ r.new # <<>> => Len(objs) < MaxObjs
    /\ objs' = objs \o r.new
    /\ ret' = ret
    /\ last' = Call(op, a, NoOperand, <<>>, r)

NewIdentity ==
    Construct("IdentityObservable", NoOperand, ReturnObj(IdentityObservable))

NewSymbolic(p) ==
    Construct("SymbolicObservable", NoOperand,
              ReturnObj(SymbolicObservable(p.variables, p.observables)))

NewIdentitySymbolic(variables) ==
    Construct("IdentitySymbolicObservable", NoOperand,
              ReturnObj(IdentitySymbolicObservable(variables)))

NewQuadratic(n) ==
    Construct("QuadraticObservable", Scalar(n), QuadraticObservable(n))

\* a op b for op in + - * /, at least one operand an object
Arith(op, a, b) ==
    /\ Building
    /\ a[1] = "obj" \/ b[1] = "obj"
    /\ \E r \in BinaryOp(op, Operand(objs, a), Operand(objs, b)) :
          /\ ret' = r.new
          /\ last' = Call(op, a, b, <<>>, r)
    /\ objs' = objs

\* objs[i] | objs[j]
Or(i, j) ==
    /\ Building
    /\ \E r \in (IF objs[i].kind = "Symbolic"
                 THEN SymbolicObservable__or__(objs, i, j)
                 ELSE KoopmanObservable__or__(objs, i, j)) :
          /\ ret' = r.new
          /\ last' = Call("|", Obj(i), Obj(j), <<>>, r)
    /\ objs' = objs

\* the object a call is made on: a named object, or the object the operator
\* just returned
Targets ==
    IF Building THEN {Obj(i) : i \in 1..Len(objs)}
    ELSE IF ret # <<>> /\ last.out = <<>> /\ last.err = "none" THEN {Ret}
    ELSE {}

Target(t) == IF t = Ret THEN ret[1] ELSE objs[t[2]]

\* obj with its evaluators compiled once more
Recompiled(obj) == [obj EXCEPT !.compiled = @ + 1]

\* Value with compilation deferred to the call: the target is compiled again
ValueRecompiling(t, X) ==
    /\ last' = Call("value", t, NoOperand, X, obs_fcn(objs, Target(t), X))
    /\ ret' = IF t = Ret /\ ret[1].kind = "Symbolic" THEN <<Recompiled(ret[1])>> ELSE ret
    /\ objs' = IF t # Ret /\ objs[t[2]].kind = "Symbolic"
               THEN [objs EXCEPT ![t[2]] = Recompiled(@)] ELSE objs

\* t.obs_fcn(X), also reached as t(X)
Value(t, X) ==
    /\ last' = Call("value", t, NoOperand, X, obs_fcn(objs, Target(t), X))
    /\ UNCHANGED <<objs, ret>>

\* t.obs_grad(X)
Gradient(t, X) ==
    /\ last' = Call("gradient", t, NoOperand, X, obs_grad(objs, Target(t), X))
    /\ UNCHANGED <<objs, ret>>

Operands == {Obj(i) : i \in 1..Len(objs)} \cup {Scalar(c) : c \in Scalars}

Next ==
    \/ NewIdentity
    \/ \E p \in Presets : NewSymbolic(p)
    \/ \E v \in VariableLists : NewIdentitySymbolic(v)
    \/ \E n \in 1..MaxDim : NewQuadratic(n)
    \/ \E op \in {"+", "-", "*", "/"} : \E a, b \in Operands : Arith(op, a, b)
    \/ \E i, j \in 1..Len(objs) : Or(i, j)
    \/ \E t \in Targets : \E X \in Samples : Value(t, X)
    \/ \E t \in Targets : \E X \in Samples : Gradient(t, X)

Spec == Init /\ [][Next]_vars

-----------------------------------------------------------------------------
(* Vocabulary of the properties *)

ArithOps == {"+", "-", "*", "/"}

Tag(op) ==
    CASE op = "+" -> "add" [] op = "-" -> "sub"
      [] op = "*" -> "mul" [] op = "/" -> "div"

IsObj(d) == d # NoOperand /\ d[1] = "obj"
IsScalar(d) == d # NoOperand /\ d[1] = "num"
IsSymbolicObj(d) == IsObj(d) /\ objs[d[2]].kind = "Symbolic"

\* the last call combined two named SymbolicObservables
BothSymbolic == IsSymbolicObj(last.a) /\ IsSymbolicObj(last.b)

LeftObj == objs[last.a[2]]
RightObj == objs[last.b[2]]

\* the symbolic objects that exist
SymbolicObjects == {o \in Range(objs) \cup Range(ret) : o.kind = "Symbolic"}

\* the i-th component of X bound to the i-th variable
Binding(variables, X) ==
    [n \in Range(variables) |->
        Int2Rat(X[CHOOSE k \in 1..Len(variables) : variables[k] = n])]

IndexOf(variables, n) == CHOOSE k \in 1..Len(variables) : variables[k] = n

\* the distinct elements of a followed by those of b not yet seen
RECURSIVE Dedup(_, _)
Dedup(s, seen) ==
    IF s = <<>> THEN <<>>
    ELSE IF Head(s) \in seen THEN Dedup(Tail(s), seen)
    ELSE <<Head(s)>> \o Dedup(Tail(s), seen \cup {Head(s)})

FirstSeen(a, b) == Dedup(a \o b, {})

-----------------------------------------------------------------------------
\* C1: for + - * / on two SymbolicObservables over the same ordered variable
\* list, with m and k expressions, no error is raised and at every state of
\* that length the result's value has min(m, k) entries, the i-th being the
\* operation applied to the i-th entries of the operands' values.
C1_ElementwiseValue ==
    (last.op \in ArithOps /\ BothSymbolic /\ LeftObj.variables = RightObj.variables)
    => /\ last.err = "none"
       /\ ret # <<>>
       /\ \A X \in StatesOfLen(Len(LeftObj.variables)) :
            LET r == obs_fcn(objs, ret[1], X)
                va == obs_fcn(objs, LeftObj, X)
                vb == obs_fcn(objs, RightObj, X)
            IN  /\ r.err = "none"
                /\ Len(r.out) = Min(Len(LeftObj.observables), Len(RightObj.observables))
                /\ \A i \in 1..Len(r.out) :
                     r.out[i] = <<RatOp(Tag(last.op), va.out[i][1], vb.out[i][1])>>

-----------------------------------------------------------------------------
RECURSIVE Degree(_)
Degree(e) ==
    CASE e[1] = "sym" -> 1
      [] e[1] = "num" -> 0
      [] e[1] = "mul" -> Degree(e[2]) + Degree(e[3])
      [] e[1] = "div" -> 99
      [] OTHER -> IF Degree(e[2]) > Degree(e[3]) THEN Degree(e[2]) ELSE Degree(e[3])

\* env with variable n moved by d
Shift(env, n, d) == [env EXCEPT ![n] = RatAdd(@, Int2Rat(d))]

\* the central difference quotient of e by n at env: the derivative itself
\* when e is a polynomial of degree at most 2
CentralDifference(e, n, env) ==
    RatDiv(RatSub(Eval(e, Shift(env, n, 1)), Eval(e, Shift(env, n, -1))), Int2Rat(2))

-----------------------------------------------------------------------------
\* x' = [x0, ..., x_{n-1}, 1]
Augmented(n) == [k \in 1..n |-> Sym(SymName(k - 1))] \o <<Num(1)>>

\* e and f take the same value at every state over vs
SameFunction(e, f, vs) ==
    \A X \in StatesOfLen(Len(vs)) : Eval(e, Binding(vs, X)) = Eval(f, Binding(vs, X))

\* C3: for every n >= 1, QuadraticObservable(n) is constructed, with the
\* variables x0..x_{n-1} and (n+1)(n+2)/2 expressions: x'[i]*x'[j] for j <= i,
\* at position i(i+1)/2 + j (counted from 0), every monomial once.
C3_QuadraticLayout ==
    last.op = "QuadraticObservable"
    => LET n == last.a[2]
           q == objs[Len(objs)]
           xa == Augmented(n)
       IN  /\ last.err = "none"
           /\ q.variables = [k \in 1..n |-> SymName(k - 1)]
           /\ Len(q.observables) = ((n + 1) * (n + 2)) \div 2
           /\ \A i \in 0..n : \A j \in 0..i :
                SameFunction(q.observables[(i * (i + 1)) \div 2 + j + 1],
                             Bin("mul", xa[i + 1], xa[j + 1]), q.variables)
           /\ \A k, l \in 1..Len(q.observables) :
                k # l => ~SameFunction(q.observables[k], q.observables[l], q.variables)

-----------------------------------------------------------------------------
\* C4: obs * c, c * obs, obs / c and c / obs, c a plain number, each return a
\* new SymbolicObservable over the variables of obs whose i-th expression is
\* the i-th expression of obs multiplied by c, divided by c, or c divided by
\* it; none raises an error.
C4_ScalarForms ==
    (last.op \in {"*", "/"}
        /\ \/ IsSymbolicObj(last.a) /\ IsScalar(last.b)
           \/ IsScalar(last.a) /\ IsSymbolicObj(last.b))
    => LET o == IF IsObj(last.a) THEN LeftObj ELSE RightObj
           c == IF IsObj(last.a) THEN last.b[2] ELSE last.a[2]
       IN  /\ last.err = "none"
           /\ ret # <<>>
           /\ ret[1].kind = "Symbolic"
           /\ ret[1].variables = o.variables
           /\ Len(ret[1].observables) = Len(o.observables)
           /\ \A i \in 1..Len(o.observables) :
                \A X \in StatesOfLen(Len(o.variables)) :
                    LET env == Binding(o.variables, X)
                        v == Eval(o.observables[i], env)
                    IN  Eval(ret[1].observables[i], env) =
                            IF IsObj(last.a) THEN RatOp(Tag(last.op), v, Int2Rat(c))
                            ELSE RatOp(Tag(last.op), Int2Rat(c), v)

-----------------------------------------------------------------------------
Disjoint(a, b) == Range(a.variables) \cap Range(b.variables) = {}

\* in the gradient g of r, the entries of the expressions at positions rows
\* by the variables vs are all zero
ZeroBlock(g, r, rows, vs) ==
    \A n \in vs : \A i \in rows : g[IndexOf(r.variables, n)][i] = <<0, 1>>

\* C5: a | b for SymbolicObservables a (m expressions) and b (k expressions)
\* is one SymbolicObservable holding a's m expressions in order followed by
\* b's k expressions in order, over the union of both variable lists; when
\* the variable sets are disjoint, the gradient entry of an expression of one
\* operand by a variable of the other is zero at every state.
C5_Concatenation ==
    (last.op = "|" /\ BothSymbolic)
    => /\ last.err = "none"
       /\ ret # <<>>
       /\ ret[1].kind = "Symbolic"
       /\ LET a == LeftObj
              b == RightObj
              r == ret[1]
              m == Len(a.observables)
              k == Len(b.observables)
          IN  /\ Len(r.observables) = m + k
              /\ \A i \in 1..m : r.observables[i] = a.observables[i]
              /\ \A i \in 1..k : r.observables[m + i] = b.observables[i]
              /\ Range(r.variables) = Range(a.variables) \cup Range(b.variables)
              /\ Len(r.variables) = Cardinality(Range(r.variables))
              /\ Disjoint(a, b) =>
                   \A X \in StatesOfLen(Len(r.variables)) :
                      LET g == obs_grad(objs, r, X)
                      IN  /\ g.err = "none"
                          /\ ZeroBlock(g.out, r, 1..m, Range(b.variables))
                          /\ ZeroBlock(g.out, r, (m + 1)..(m + k), Range(a.variables))

\* two SymbolicObservables over disjoint variables, with different numbers
\* of expressions, were concatenated
C5_Witness ==
    /\ last.op = "|" /\ BothSymbolic /\ ret # <<>>
    /\ Disjoint(LeftObj, RightObj)
    /\ Len(LeftObj.observables) # Len(RightObj.observables)
    /\ Len(ret[1].observables) = 3

-----------------------------------------------------------------------------
\* C6: value(state) and gradient(state) of a SymbolicObservable with V
\* variables, on a state whose length is not V, fail with a ShapeError.
C6_ShapeError ==
    (last.op \in {"value", "gradient"} /\ Target(last.a).kind = "Symbolic"
        /\ Len(last.X) # Len(Target(last.a).variables))
    => last.err = "ShapeError"

-----------------------------------------------------------------------------
\* C7: value(state) of a CombineObservable of two children, on a state each
\* child accepts on its own, returns the first child's p rows followed by the
\* second child's q rows.
C7_CombineValue ==
    (last.op = "value" /\ Target(last.a).kind = "Combine"
        /\ Len(Target(last.a).observables) = 2
        /\ \A c \in Range(Target(last.a).observables) :
              obs_fcn(objs, objs[c], last.X).err = "none")
    => LET ch == Target(last.a).observables
           p == obs_fcn(objs, objs[ch[1]], last.X).out
           q == obs_fcn(objs, objs[ch[2]], last.X).out
       IN  /\ last.err = "none"
           /\ Len(last.out) = Len(p) + Len(q)
           /\ last.out = p \o q

-----------------------------------------------------------------------------
\* C8: the variable list of a + b, a - b, a * b, a / b and a | b holds the
\* variables of a in their declared order, followed by those of b not yet
\* present, in their declared order.
C8_FirstSeenOrder ==
    (last.op \in ArithOps \cup {"|"} /\ BothSymbolic /\ ret # <<>>)
    => ret[1].variables = FirstSeen(LeftObj.variables, RightObj.variables)

-----------------------------------------------------------------------------
-----------------------------------------------------------------------------
\* the evaluators of o are those compiled from its own lists
CompiledFromOwnLists(o) ==
    /\ o.g = lambdify(o.variables, ColumnMatrix(o.observables))
    /\ o.gd = lambdify(o.variables,
                       GradientMatrix(o.variables, ColumnMatrix(o.observables)))

\* C10: no step changes an object that exists: every named object keeps its
\* variable list, expression list, length and compiled evaluators, and so
\* does the object an operator returned while it is evaluated; an operator
\* leaves its operands alone and returns an object differentiated and
\* compiled once, from its own lists.
C10_Immutable ==
    [][ /\ Len(objs') >= Len(objs)
        /\ \A i \in 1..Len(objs) : objs'[i] = objs[i]
        /\ ret # <<>> => ret' = ret
        /\ last'.op \in ArithOps \cup {"|"} => objs' = objs
        /\ \A o \in Range(objs') \cup Range(ret') :
              o.kind = "Symbolic" => o.compiled = 1 /\ CompiledFromOwnLists(o)
      ]_vars

\* the object an operator returned was evaluated, after its operands were
\* built
C10_Witness ==
    /\ last.op \in {"value", "gradient"} /\ last.a = Ret /\ last.err = "none"
    /\ ret[1].kind = "Symbolic"
    /\ Len(objs) = MaxObjs

====
